---- MODULE Spec2Model ----
(***************************************************************************)
(* The social media API server (Express + MySQL): the six tables, the      *)
(* token middleware and the route handlers.  Every handler is a sequence   *)
(* of steps, one per awaited SQL statement: a step is the synchronous code *)
(* that leads to the statement together with the statement's execution by  *)
(* the database; handlers running at the same time interleave between      *)
(* their steps.  The response is sent by the synchronous code that follows *)
(* the last statement.                                                     *)
(***************************************************************************)
EXTENDS Integers, Sequences, FiniteSets, TLC

\* Bounds of the model.
MaxReq == 2        \* requests the server receives in one run (Spec)
MaxSocialReq == 3  \* requests the server receives in one run (SpecSocial)
MaxAuthReq == 2    \* requests the server receives in one run (SpecAuth)
MaxReadReq == 2    \* requests the server receives in one run (SpecRead)
MaxInFlight == 2   \* handlers that run at the same time

Slots == 1..MaxInFlight

\* Inputs the clients send.
Usernames == {"ann", "bob"}
Emails == {"ann@x.org", "bob_admin@gmail.com", "admin@social.com", "admin@gmail.com"}
Passwords == {"pw"}
\* Passwords of register and login requests, two of them longer than 72
\* bytes and different in their last byte only.
LongPasswords == {"aaaaaaaaaaaaaaaaaaaaaaaaaaaaaaaaaaaaaaaaaaaaaaaaaaaaaaaaaaaaaaaaaaaaaaaa1",
                  "aaaaaaaaaaaaaaaaaaaaaaaaaaaaaaaaaaaaaaaaaaaaaaaaaaaaaaaaaaaaaaaaaaaaaaaa2"}
AuthPasswords == {"pw", "no"} \cup LongPasswords
Contents == {"", "hi"}
UserIds == {1, 2}          \* :userId of a follow request
PostIds == {1}             \* :postId of a like or comment request
NotificationIds == {1}     \* :notificationId of a mark-as-read request

\* SQL NULL of an INT column (ids start at 1).
NullId == 0

VARIABLES
    users,          \* table users: rows [id, username, email, password_hash, is_admin]
    posts,          \* table posts: rows [id, user_id, content, created_at]
    comments,       \* table comments: rows [id, user_id, post_id, content]
    likes,          \* table likes: rows [id, user_id, post_id]
    follows,        \* table follows: rows [id, follower_id, following_id]
    notifications,  \* table notifications: rows [id, user_id, type, source_user_id, post_id, is_read]
    autoInc,        \* the AUTO_INCREMENT counter of each table
    now,            \* the database clock (CURRENT_TIMESTAMP, whole seconds)
    tokens,         \* the tokens jwt.sign has issued
    req,            \* the handlers in flight, one per slot
    last,           \* the response sent last
    succ,           \* per like and follow target: the 200 responses sent so far
    given,          \* per users row: the password its register request carried
    left            \* requests the clients have yet to send

tables == <<users, posts, comments, likes, follows, notifications, autoInc, now>>
vars == <<users, posts, comments, likes, follows, notifications, autoInc, now,
          tokens, req, last, succ, given, left>>
hist == <<last, succ, given>>

----------------------------------------------------------------------------
\* Values

NoToken == [userId |-> 0, email |-> "", isAdmin |-> 0, sig |-> "none"]
\* A token the server did not sign with JWT_SECRET, or one that has expired.
BadTokens == {[userId |-> 1, email |-> "ann@x.org", isAdmin |-> 1, sig |-> "bad"]}
NoBody == [username |-> "", email |-> "", password |-> "", content |-> ""]
NoRow == [id |-> 0, username |-> "", email |-> "", password_hash |-> "", is_admin |-> 0]

Idle == [op |-> "idle", pc |-> "idle", token |-> NoToken, user |-> NoToken,
         arg |-> 0, body |-> NoBody, n |-> 0, row |-> NoRow,
         status |-> 0, flag |-> FALSE, data |-> <<>>,
         alone |-> TRUE, solo |-> TRUE, pre |-> {}, pre2 |-> <<>>, wrote |-> {}]

Min(a, b) == IF a <= b THEN a ELSE b

\* (FalsyStr of a handler without the test.)
FalsyStrNever(v) == FALSE

\* JavaScript truthiness: a missing or empty string is falsy, and so is 0.
FalsyStr(v) == v = ""
TruthyNum(v) == v # 0

\* A BOOLEAN column is TINYINT(1): true is stored and read back as 1, false as 0.
ToTinyInt(b) == IF b THEN 1 ELSE 0

\* String.prototype.endsWith
EndsWith(s, suffix) ==
    /\ Len(s) >= Len(suffix)
    /\ SubSeq(s, Len(s) - Len(suffix) + 1, Len(s)) = suffix

\* register: const isAdmin = email.endsWith('_admin@gmail.com') || email === 'admin@social.com'
IsAdminEmail(email) == EndsWith(email, "_admin@gmail.com") \/ email = "admin@social.com"

\* bcrypt reads at most the first 72 bytes of the password.
BcryptMaxBytes == 72
BcryptHash(password) == <<"$2a$10$", SubSeq(password, 1, Min(Len(password), BcryptMaxBytes))>>
BcryptCompare(password, hash) == BcryptHash(password) = hash

\* jwt.sign(payload, JWT_SECRET)
JwtSign(row) == [userId |-> row.id, email |-> row.email, isAdmin |-> row.is_admin, sig |-> "ok"]
\* jwt.verify(token, JWT_SECRET): the payload, or a throw
JwtVerifies(token) == token.sig = "ok"

----------------------------------------------------------------------------
\* The schema's constraints, as the database enforces them on INSERT

UsersInsertOk(row) ==
    /\ \A u \in users : u.username # row.username     \* username UNIQUE
    /\ \A u \in users : u.email # row.email           \* email UNIQUE

PostsInsertOk(row) == \E u \in users : u.id = row.user_id

\* (CommentsInsertOk of a schema without the FOREIGN KEY on post_id.)
CommentsInsertNoPostKey(row) == \E u \in users : u.id = row.user_id

CommentsInsertOk(row) ==
    /\ \E u \in users : u.id = row.user_id
    /\ \E p \in posts : p.id = row.post_id

\* (LikesInsertOk of a schema without UNIQUE(user_id, post_id).)
LikesInsertNoUnique(row) ==
    /\ \E u \in users : u.id = row.user_id
    /\ \E p \in posts : p.id = row.post_id

\* (LikesInsertOk of a schema without the FOREIGN KEY on post_id.)
LikesInsertNoPostKey(row) ==
    /\ \A l \in likes : ~(l.user_id = row.user_id /\ l.post_id = row.post_id)
    /\ \E u \in users : u.id = row.user_id

LikesInsertOk(row) ==
    /\ \A l \in likes : ~(l.user_id = row.user_id /\ l.post_id = row.post_id)  \* UNIQUE(user_id, post_id)
    /\ \E u \in users : u.id = row.user_id
    /\ \E p \in posts : p.id = row.post_id

FollowsInsertOk(row) ==
    /\ \A f \in follows :
          ~(f.follower_id = row.follower_id /\ f.following_id = row.following_id)  \* UNIQUE(follower_id, following_id)
    /\ \E u \in users : u.id = row.follower_id
    /\ \E u \in users : u.id = row.following_id

NotificationsInsertOk(row) ==
    /\ \E u \in users : u.id = row.user_id
    /\ \E u \in users : u.id = row.source_user_id
    /\ row.post_id # NullId => \E p \in posts : p.id = row.post_id

\* An INSERT takes the table's next AUTO_INCREMENT value, also when a
\* constraint then rejects the row.
TakeId(t) == autoInc' = [autoInc EXCEPT ![t] = @ + 1]

\* The (user_id, post_id) and (follower_id, following_id) pairs of the rows.
LikePairs == {<<l.user_id, l.post_id>> : l \in likes}
FollowPairs == {<<f.follower_id, f.following_id>> : f \in follows}

----------------------------------------------------------------------------
\* Requests, slots and responses

Active(s) == req[s].op # "idle"
CanReceive == left > 0
\* The new handler runs in the first free slot (slots are interchangeable).
FreeSlot(s) == ~Active(s) /\ \A r \in Slots : r < s => Active(r)

Response(r) == [op |-> r.op, token |-> r.token, arg |-> r.arg, status |-> r.status,
                flag |-> r.flag, data |-> r.data,
                alone |-> r.alone, solo |-> r.solo, pre |-> r.pre, post |-> {},
                pre2 |-> r.pre2, wrote |-> r.wrote]

\* A response sent by the synchronous code that received the request.
Reply(op, token, arg, status) ==
    /\ last' = Response([Idle EXCEPT !.op = op, !.token = token,
                                     !.arg = arg, !.status = status])
    /\ left' = left - 1
    /\ UNCHANGED <<succ, given>>

\* The handler op(arg) of the token's user starts in slot s at step pc.  The
\* history fields record whether it overlaps a handler of the same operation,
\* user and target (alone) or any handler at all (solo), the pairs of the
\* table it toggles (for a register request, the emails of users) as they are
\* when it starts (pre) and, when it directly
\* follows a request of the same operation, user and target that ran on its
\* own, the pairs as they were when that one started (pre2).
SameKey(r, op, token, arg) == r.op = op /\ r.token.userId = token.userId /\ r.arg = arg

Pre2(fields) ==
    IF /\ \A r \in Slots : ~Active(r)
       /\ SameKey(last, fields.op, fields.token, fields.arg)
       /\ last.status = 200 /\ last.solo
    THEN <<last.pre>>
    ELSE <<>>

Started(s, fields, pre) ==
    LET overlap == \E r \in Slots : Active(r) /\ SameKey(req[r], fields.op, fields.token, fields.arg)
        busy == \E r \in Slots : Active(r)
    IN  /\ req' = [r \in Slots |->
                    IF r = s
                    THEN [fields EXCEPT !.alone = ~overlap, !.solo = ~busy, !.pre = pre,
                                        !.pre2 = Pre2(fields)]
                    ELSE IF Active(r)
                    THEN [req[r] EXCEPT
                            !.alone = @ /\ ~SameKey(req[r], fields.op, fields.token, fields.arg),
                            !.solo = FALSE]
                    ELSE req[r]]
        /\ left' = left - 1

\* (AuthStatus reading the payload without verifying the token.)
AuthStatusUnverified(token) == IF token = NoToken THEN 401 ELSE 0

\* authenticateToken: 0 when next() is called, else the status it answers.
AuthStatus(token) ==
    IF token = NoToken THEN 401
    ELSE IF JwtVerifies(token) THEN 0
    ELSE 403

\* The tokens a client can present: none, one the server issued, a bad one.
Presentable == {NoToken} \cup tokens \cup BadTokens

\* The pairs of the table a like or follow handler toggles (no step that
\* sends a response changes them).
Snapshot(op) ==
    IF op = "like" THEN LikePairs
    ELSE IF op = "follow" THEN FollowPairs
    ELSE {}

\* The 200 responses sent to the like or follow requests of key <<op, user, target>>.
Count(key) == IF key \in DOMAIN succ THEN succ[key] ELSE 0
Counted(key) == [k \in DOMAIN succ \cup {key} |-> IF k = key THEN Count(k) + 1 ELSE Count(k)]

\* The synchronous code of slot s sends its response and the handler ends.
Send(s, status, flag, data) ==
    /\ last' = [Response([req[s] EXCEPT !.status = status, !.flag = flag, !.data = data])
                  EXCEPT !.post = Snapshot(req[s].op)]
    /\ succ' = IF req[s].op \in {"like", "follow"} /\ status = 200
               THEN Counted(<<req[s].op, req[s].user.userId, req[s].arg>>)
               ELSE succ
    /\ req' = [req EXCEPT ![s] = Idle]
    /\ UNCHANGED given

\* Slot s goes on to step pc with its locals changed.
Goto(s, pc, n) == req' = [req EXCEPT ![s].pc = pc, ![s].n = n]

\* The awaited statement of slot s was the handler's last one (or threw): the
\* code that follows it only sends this response.
Pending(s, status, flag, data) ==
    req' = [req EXCEPT ![s].pc = "respond", ![s].status = status,
                       ![s].flag = flag, ![s].data = data]

\* The same after an INSERT INTO notifications of row.
PendingWrote(s, status, flag, data, row) ==
    req' = [req EXCEPT ![s].pc = "respond", ![s].status = status,
                       ![s].flag = flag, ![s].data = data, ![s].wrote = @ \cup {row}]

Respond(s) ==
    /\ req[s].pc = "respond"
    /\ Send(s, req[s].status, req[s].flag, req[s].data)
    /\ UNCHANGED <<tables, tokens, left>>

----------------------------------------------------------------------------
\* POST /api/auth/register

RegisterStart(username, email, password) ==
    /\ CanReceive
    /\ IF FalsyStr(username) \/ FalsyStr(email) \/ FalsyStr(password)
       THEN /\ Reply("register", NoToken, 0, 400)
            /\ UNCHANGED req
       ELSE /\ \E s \in Slots :
                 /\ FreeSlot(s)
                 /\ Started(s, [Idle EXCEPT !.op = "register", !.pc = "reg_insert",
                                    !.body = [NoBody EXCEPT !.username = username,
                                                 !.email = email, !.password = password],
                                    !.n = Cardinality({u \in users : u.email = email})],
                            {u.email : u \in users})
            /\ UNCHANGED hist
    /\ UNCHANGED <<tables, tokens>>

\* INSERT INTO users (username, email, password_hash, is_admin) VALUES (?, ?, ?, ?)
UserRow(id, username, email, password) ==
    [id |-> id, username |-> username, email |-> email,
     password_hash |-> BcryptHash(password), is_admin |-> ToTinyInt(IsAdminEmail(email))]

NewUser(s) == UserRow(autoInc.users, req[s].body.username, req[s].body.email, req[s].body.password)

RegisterInsert(s) ==
    /\ req[s].pc = "reg_insert"
    /\ IF req[s].n > 0
       THEN /\ Send(s, 400, FALSE, <<>>)
            /\ UNCHANGED <<users, autoInc>>
       ELSE /\ TakeId("users")
            /\ IF UsersInsertOk(NewUser(s))
               THEN /\ users' = users \cup {NewUser(s)}
                    /\ given' = given \cup {<<autoInc.users, req[s].body.password>>}
                    /\ Goto(s, "reg_select", autoInc.users)
               ELSE /\ Pending(s, 500, FALSE, <<>>)
                    /\ UNCHANGED <<users, given>>
            /\ UNCHANGED <<last, succ>>
    /\ UNCHANGED <<posts, comments, likes, follows, notifications, now, tokens, left>>

RegisterSelect(s) ==
    /\ req[s].pc = "reg_select"
    /\ \E u \in users :
         /\ u.id = req[s].n
         /\ req' = [req EXCEPT ![s].pc = "reg_sign", ![s].row = u]
    /\ UNCHANGED <<tables, tokens, hist, left>>

RegisterSign(s) ==
    /\ req[s].pc = "reg_sign"
    /\ tokens' = tokens \cup {JwtSign(req[s].row)}
    /\ Send(s, 201, TRUE, <<JwtSign(req[s].row)>>)
    /\ UNCHANGED <<tables, left>>

----------------------------------------------------------------------------
\* POST /api/auth/login

LoginStart(email, password) ==
    /\ CanReceive
    /\ \E s \in Slots :
         /\ FreeSlot(s)
         /\ LET found == {u \in users : u.email = email}
            IN  \E row \in (IF found = {} THEN {NoRow} ELSE found) :
                  Started(s, [Idle EXCEPT !.op = "login", !.pc = "login_check",
                                 !.body = [NoBody EXCEPT !.email = email, !.password = password],
                                 !.row = row], {})
    /\ UNCHANGED <<tables, tokens, hist>>

LoginCheck(s) ==
    /\ req[s].pc = "login_check"
    /\ IF req[s].row = NoRow
       THEN /\ Send(s, 401, FALSE, <<>>)
            /\ UNCHANGED tokens
       ELSE IF ~BcryptCompare(req[s].body.password, req[s].row.password_hash)
       THEN /\ Send(s, 401, FALSE, <<>>)
            /\ UNCHANGED tokens
       ELSE /\ tokens' = tokens \cup {JwtSign(req[s].row)}
            /\ Send(s, 200, TRUE, <<JwtSign(req[s].row)>>)
    /\ UNCHANGED <<tables, left>>

----------------------------------------------------------------------------
\* POST /api/posts

NewPost(userId, content, at) ==
    [id |-> autoInc.posts, user_id |-> userId, content |-> content, created_at |-> at]

CreatePostStart(token, content) ==
    /\ CanReceive
    /\ IF AuthStatus(token) # 0
       THEN /\ Reply("createPost", token, 0, AuthStatus(token))
            /\ UNCHANGED <<tables, req>>
       ELSE IF FalsyStr(content)
       THEN /\ Reply("createPost", token, 0, 400)
            /\ UNCHANGED <<tables, req>>
       ELSE /\ \E at \in {now, now + 1} :
                 /\ now' = at
                 /\ TakeId("posts")
                 /\ \E s \in Slots :
                      /\ FreeSlot(s)
                      /\ IF PostsInsertOk(NewPost(token.userId, content, at))
                         THEN /\ posts' = posts \cup {NewPost(token.userId, content, at)}
                              /\ Started(s, [Idle EXCEPT !.op = "createPost", !.pc = "post_select",
                                                 !.token = token, !.user = token,
                                                 !.body = [NoBody EXCEPT !.content = content],
                                                 !.n = autoInc.posts], {})
                         ELSE /\ UNCHANGED posts
                              /\ Started(s, [Idle EXCEPT !.op = "createPost", !.pc = "respond",
                                                 !.token = token, !.user = token,
                                                 !.status = 500], {})
            /\ UNCHANGED <<users, comments, likes, follows, notifications, hist>>
    /\ UNCHANGED tokens

CreatePostSelect(s) ==
    /\ req[s].pc = "post_select"
    /\ Pending(s, 201, TRUE, <<req[s].n>>)
    /\ UNCHANGED <<tables, tokens, hist, left>>

----------------------------------------------------------------------------
\* POST /api/posts/:postId/like

NewLike(s) == [id |-> autoInc.likes, user_id |-> req[s].user.userId, post_id |-> req[s].arg]

\* (LikeNotification with user_id and source_user_id the other way round.)
LikeNotificationSwapped(s) ==
    [id |-> autoInc.notifications, user_id |-> req[s].user.userId, type |-> "like",
     source_user_id |-> req[s].n, post_id |-> req[s].arg, is_read |-> 0]

LikeNotification(s) ==
    [id |-> autoInc.notifications, user_id |-> req[s].n, type |-> "like",
     source_user_id |-> req[s].user.userId, post_id |-> req[s].arg, is_read |-> 0]

\* (DeleteLike with the two parameters bound the other way round.)
DeleteLikeSwapped(userId, postId) == {l \in likes : ~(l.user_id = postId /\ l.post_id = userId)}

\* DELETE FROM likes WHERE user_id = ? AND post_id = ?: the rows left
DeleteLike(userId, postId) == {l \in likes : ~(l.user_id = userId /\ l.post_id = postId)}

\* (LikeNotifies without the test.)
LikeNotifiesAlways(ownerId, userId) == TRUE

\* if (post.user_id !== userId)
LikeNotifies(ownerId, userId) == ownerId # userId

\* SELECT * FROM likes WHERE user_id = ? AND post_id = ?
LikeStart(token, postId) ==
    /\ CanReceive
    /\ IF AuthStatus(token) # 0
       THEN /\ Reply("like", token, postId, AuthStatus(token))
            /\ UNCHANGED req
       ELSE /\ \E s \in Slots :
                 /\ FreeSlot(s)
                 /\ Started(s, [Idle EXCEPT !.op = "like", !.pc = "like_toggle",
                                    !.token = token, !.user = token, !.arg = postId,
                                    !.n = Cardinality({l \in likes : l.user_id = token.userId
                                                                     /\ l.post_id = postId})],
                            LikePairs)
            /\ UNCHANGED hist
    /\ UNCHANGED <<tables, tokens>>

\* DELETE FROM likes ..., or INSERT INTO likes ...
LikeToggle(s) ==
    /\ req[s].pc = "like_toggle"
    /\ IF req[s].n > 0
       THEN /\ likes' = DeleteLike(req[s].user.userId, req[s].arg)
            /\ Pending(s, 200, FALSE, <<>>)
            /\ UNCHANGED autoInc
       ELSE /\ TakeId("likes")
            /\ IF LikesInsertOk(NewLike(s))
               THEN /\ likes' = likes \cup {NewLike(s)}
                    /\ Goto(s, "like_owner", 0)
               ELSE /\ Pending(s, 500, FALSE, <<>>)
                    /\ UNCHANGED likes
    /\ UNCHANGED <<users, posts, comments, follows, notifications, now, tokens, hist, left>>

\* SELECT user_id FROM posts WHERE id = ?
LikeOwner(s) ==
    /\ req[s].pc = "like_owner"
    /\ LET found == {p \in posts : p.id = req[s].arg}
       IN  IF found = {}
           THEN Pending(s, 500, FALSE, <<>>)    \* post is undefined: post.user_id throws
           ELSE \E p \in found : Goto(s, "like_notify", p.user_id)
    /\ UNCHANGED <<tables, tokens, hist, left>>

\* if (post.user_id !== userId) INSERT INTO notifications ...
LikeNotify(s) ==
    /\ req[s].pc = "like_notify"
    /\ IF LikeNotifies(req[s].n, req[s].user.userId)
       THEN /\ TakeId("notifications")
            /\ IF NotificationsInsertOk(LikeNotification(s))
               THEN /\ notifications' = notifications \cup {LikeNotification(s)}
                    /\ PendingWrote(s, 200, TRUE, <<>>, LikeNotification(s))
               ELSE /\ Pending(s, 500, FALSE, <<>>)
                    /\ UNCHANGED notifications
            /\ UNCHANGED hist
       ELSE /\ Send(s, 200, TRUE, <<>>)
            /\ UNCHANGED <<notifications, autoInc>>
    /\ UNCHANGED <<users, posts, comments, likes, follows, now, tokens, left>>

----------------------------------------------------------------------------
\* POST /api/users/:userId/follow

NewFollow(s) ==
    [id |-> autoInc.follows, follower_id |-> req[s].user.userId, following_id |-> req[s].arg]

FollowNotification(s) ==
    [id |-> autoInc.notifications, user_id |-> req[s].arg, type |-> "follow",
     source_user_id |-> req[s].user.userId, post_id |-> NullId, is_read |-> 0]

\* (SelfFollow without the test.)
SelfFollowNever(targetUserId, followerId) == FALSE

\* if (targetUserId === followerId)
SelfFollow(targetUserId, followerId) == targetUserId = followerId

\* (DeleteFollow with the two parameters bound the other way round.)
DeleteFollowSwapped(followerId, followingId) ==
    {f \in follows : ~(f.follower_id = followingId /\ f.following_id = followerId)}

\* DELETE FROM follows WHERE follower_id = ? AND following_id = ?: the rows left
DeleteFollow(followerId, followingId) ==
    {f \in follows : ~(f.follower_id = followerId /\ f.following_id = followingId)}

\* SELECT id FROM users WHERE id = ?
FollowStart(token, targetUserId) ==
    /\ CanReceive
    /\ IF AuthStatus(token) # 0
       THEN /\ Reply("follow", token, targetUserId, AuthStatus(token))
            /\ UNCHANGED req
       ELSE IF SelfFollow(targetUserId, token.userId)
       THEN /\ Reply("follow", token, targetUserId, 400)
            /\ UNCHANGED req
       ELSE /\ \E s \in Slots :
                 /\ FreeSlot(s)
                 /\ Started(s, [Idle EXCEPT !.op = "follow", !.pc = "follow_select",
                                    !.token = token, !.user = token, !.arg = targetUserId,
                                    !.n = Cardinality({u \in users : u.id = targetUserId})],
                            FollowPairs)
            /\ UNCHANGED hist
    /\ UNCHANGED <<tables, tokens>>

\* SELECT * FROM follows WHERE follower_id = ? AND following_id = ?
FollowSelect(s) ==
    /\ req[s].pc = "follow_select"
    /\ IF req[s].n = 0
       THEN Send(s, 404, FALSE, <<>>)
       ELSE /\ Goto(s, "follow_toggle",
                    Cardinality({f \in follows : f.follower_id = req[s].user.userId
                                                 /\ f.following_id = req[s].arg}))
            /\ UNCHANGED hist
    /\ UNCHANGED <<tables, tokens, left>>

\* DELETE FROM follows ..., or INSERT INTO follows ...
FollowToggle(s) ==
    /\ req[s].pc = "follow_toggle"
    /\ IF req[s].n > 0
       THEN /\ follows' = DeleteFollow(req[s].user.userId, req[s].arg)
            /\ Pending(s, 200, FALSE, <<>>)
            /\ UNCHANGED autoInc
       ELSE /\ TakeId("follows")
            /\ IF FollowsInsertOk(NewFollow(s))
               THEN /\ follows' = follows \cup {NewFollow(s)}
                    /\ Goto(s, "follow_notify", 0)
               ELSE /\ Pending(s, 500, FALSE, <<>>)
                    /\ UNCHANGED follows
    /\ UNCHANGED <<users, posts, comments, likes, notifications, now, tokens, hist, left>>

\* INSERT INTO notifications (user_id, type, source_user_id) ...
FollowNotify(s) ==
    /\ req[s].pc = "follow_notify"
    /\ TakeId("notifications")
    /\ IF NotificationsInsertOk(FollowNotification(s))
       THEN /\ notifications' = notifications \cup {FollowNotification(s)}
            /\ PendingWrote(s, 200, TRUE, <<>>, FollowNotification(s))
       ELSE /\ Pending(s, 500, FALSE, <<>>)
            /\ UNCHANGED notifications
    /\ UNCHANGED <<users, posts, comments, likes, follows, now, tokens, hist, left>>

----------------------------------------------------------------------------
\* GET /api/feed

\* FROM posts p JOIN users u ON p.user_id = u.id
\* WHERE p.user_id IN (SELECT following_id FROM follows WHERE follower_id = ?) OR p.user_id = ?
FeedRows(userId) ==
    {p \in posts :
        /\ \E u \in users : u.id = p.user_id
        /\ \/ p.user_id \in {f.following_id : f \in {g \in follows : g.follower_id = userId}}
           \/ p.user_id = userId}

\* ORDER BY created_at DESC: the rows in an order the database may return
\* them in (rows of the same second come in any order).
OrderedDesc(rows) ==
    {q \in [1..Cardinality(rows) -> rows] :
        /\ \A i, j \in DOMAIN q : i # j => q[i] # q[j]
        /\ \A i, j \in DOMAIN q : i < j => q[i].created_at >= q[j].created_at}

Ids(q) == [i \in DOMAIN q |-> q[i].id]

FeedStart(token) ==
    /\ CanReceive
    /\ IF AuthStatus(token) # 0
       THEN /\ Reply("feed", token, 0, AuthStatus(token))
            /\ UNCHANGED req
       ELSE /\ \E s \in Slots, q \in OrderedDesc(FeedRows(token.userId)) :
                 /\ FreeSlot(s)
                 /\ Started(s, [Idle EXCEPT !.op = "feed", !.pc = "respond",
                                    !.token = token, !.user = token,
                                    !.status = 200, !.flag = TRUE, !.data = Ids(q)], {})
            /\ UNCHANGED hist
    /\ UNCHANGED <<tables, tokens>>

----------------------------------------------------------------------------
\* POST /api/posts/:postId/comments

NewComment(userId, postId, content) ==
    [id |-> autoInc.comments, user_id |-> userId, post_id |-> postId, content |-> content]

CommentNotification(s) ==
    [id |-> autoInc.notifications, user_id |-> req[s].n, type |-> "comment",
     source_user_id |-> req[s].user.userId, post_id |-> req[s].arg, is_read |-> 0]

\* if (post.user_id !== userId)
CommentNotifies(ownerId, userId) == ownerId # userId

\* INSERT INTO comments (user_id, post_id, content) ...
CommentStart(token, postId, content) ==
    /\ CanReceive
    /\ IF AuthStatus(token) # 0
       THEN /\ Reply("comment", token, postId, AuthStatus(token))
            /\ UNCHANGED <<tables, req>>
       ELSE IF FalsyStr(content)
       THEN /\ Reply("comment", token, postId, 400)
            /\ UNCHANGED <<tables, req>>
       ELSE /\ TakeId("comments")
            /\ \E s \in Slots :
                 /\ FreeSlot(s)
                 /\ IF CommentsInsertOk(NewComment(token.userId, postId, content))
                    THEN /\ comments' = comments \cup {NewComment(token.userId, postId, content)}
                         /\ Started(s, [Idle EXCEPT !.op = "comment", !.pc = "comment_select",
                                            !.token = token, !.user = token, !.arg = postId,
                                            !.body = [NoBody EXCEPT !.content = content],
                                            !.n = autoInc.comments], {})
                    ELSE /\ UNCHANGED comments
                         /\ Started(s, [Idle EXCEPT !.op = "comment", !.pc = "respond",
                                            !.token = token, !.user = token, !.arg = postId,
                                            !.status = 500], {})
            /\ UNCHANGED <<users, posts, likes, follows, notifications, now, hist>>
    /\ UNCHANGED tokens

\* SELECT c.*, u.username FROM comments c JOIN users u ... WHERE c.id = ?
CommentSelect(s) ==
    /\ req[s].pc = "comment_select"
    /\ req' = [req EXCEPT ![s].pc = "comment_owner", ![s].data = <<req[s].n>>]
    /\ UNCHANGED <<tables, tokens, hist, left>>

\* SELECT user_id FROM posts WHERE id = ?
CommentOwner(s) ==
    /\ req[s].pc = "comment_owner"
    /\ LET found == {p \in posts : p.id = req[s].arg}
       IN  IF found = {}
           THEN Pending(s, 500, FALSE, <<>>)    \* post is undefined: post.user_id throws
           ELSE \E p \in found : Goto(s, "comment_notify", p.user_id)
    /\ UNCHANGED <<tables, tokens, hist, left>>

\* if (post.user_id !== userId) INSERT INTO notifications ...
CommentNotify(s) ==
    /\ req[s].pc = "comment_notify"
    /\ IF CommentNotifies(req[s].n, req[s].user.userId)
       THEN /\ TakeId("notifications")
            /\ IF NotificationsInsertOk(CommentNotification(s))
               THEN /\ notifications' = notifications \cup {CommentNotification(s)}
                    /\ PendingWrote(s, 201, TRUE, req[s].data, CommentNotification(s))
               ELSE /\ Pending(s, 500, FALSE, <<>>)
                    /\ UNCHANGED notifications
            /\ UNCHANGED hist
       ELSE /\ Send(s, 201, TRUE, req[s].data)
            /\ UNCHANGED <<notifications, autoInc>>
    /\ UNCHANGED <<users, posts, comments, likes, follows, now, tokens, left>>

----------------------------------------------------------------------------
\* GET /api/notifications

\* ... FROM notifications n ... WHERE n.user_id = ?   (the ids of the rows)
NotificationsStart(token) ==
    /\ CanReceive
    /\ IF AuthStatus(token) # 0
       THEN /\ Reply("notifications", token, 0, AuthStatus(token))
            /\ UNCHANGED req
       ELSE /\ \E s \in Slots :
                 /\ FreeSlot(s)
                 /\ Started(s, [Idle EXCEPT !.op = "notifications", !.pc = "respond",
                                    !.token = token, !.user = token,
                                    !.status = 200, !.flag = TRUE,
                                    !.data = <<{n.id : n \in {m \in notifications :
                                                              m.user_id = token.userId}}>>], {})
            /\ UNCHANGED hist
    /\ UNCHANGED <<tables, tokens>>

----------------------------------------------------------------------------
\* PATCH /api/notifications/:notificationId/read

\* (MarkReadStart whose SELECT has no AND user_id = ?.)
MarkReadStartAnyOwner(token, notificationId) ==
    /\ CanReceive
    /\ IF AuthStatus(token) # 0
       THEN /\ Reply("markRead", token, notificationId, AuthStatus(token))
            /\ UNCHANGED req
       ELSE /\ \E s \in Slots :
                 /\ FreeSlot(s)
                 /\ Started(s, [Idle EXCEPT !.op = "markRead", !.pc = "read_update",
                                    !.token = token, !.user = token, !.arg = notificationId,
                                    !.n = Cardinality({n \in notifications :
                                                        n.id = notificationId})], {})
            /\ UNCHANGED hist
    /\ UNCHANGED <<tables, tokens>>

\* SELECT * FROM notifications WHERE id = ? AND user_id = ?
MarkReadStart(token, notificationId) ==
    /\ CanReceive
    /\ IF AuthStatus(token) # 0
       THEN /\ Reply("markRead", token, notificationId, AuthStatus(token))
            /\ UNCHANGED req
       ELSE /\ \E s \in Slots :
                 /\ FreeSlot(s)
                 /\ Started(s, [Idle EXCEPT !.op = "markRead", !.pc = "read_update",
                                    !.token = token, !.user = token, !.arg = notificationId,
                                    !.n = Cardinality({n \in notifications :
                                                        n.id = notificationId
                                                        /\ n.user_id = token.userId})], {})
            /\ UNCHANGED hist
    /\ UNCHANGED <<tables, tokens>>

\* UPDATE notifications SET is_read = TRUE WHERE id = ?
MarkReadUpdate(s) ==
    /\ req[s].pc = "read_update"
    /\ IF req[s].n = 0
       THEN /\ Send(s, 404, FALSE, <<>>)
            /\ UNCHANGED notifications
       ELSE /\ notifications' = {IF n.id = req[s].arg THEN [n EXCEPT !.is_read = 1] ELSE n :
                                   n \in notifications}
            /\ Pending(s, 200, TRUE, <<>>)
            /\ UNCHANGED hist
    /\ UNCHANGED <<users, posts, comments, likes, follows, autoInc, now, tokens, left>>

----------------------------------------------------------------------------
\* GET /api/admin/users

\* (AdminStatus without the isAdmin test.)
AdminStatusOpen(user) == IF user = NoToken THEN 401 ELSE 0

\* requireAdmin: 0 when next() is called, else the status it answers.
AdminStatus(user) ==
    IF user = NoToken THEN 401
    ELSE IF ~TruthyNum(user.isAdmin) THEN 403
    ELSE 0

\* SELECT id, username, email, created_at FROM users
AdminUsersStart(token) ==
    /\ CanReceive
    /\ IF AuthStatus(token) # 0
       THEN /\ Reply("adminUsers", token, 0, AuthStatus(token))
            /\ UNCHANGED req
       ELSE IF AdminStatus(token) # 0
       THEN /\ Reply("adminUsers", token, 0, AdminStatus(token))
            /\ UNCHANGED req
       ELSE /\ \E s \in Slots :
                 /\ FreeSlot(s)
                 /\ Started(s, [Idle EXCEPT !.op = "adminUsers", !.pc = "respond",
                                    !.token = token, !.user = token,
                                    !.status = 200, !.flag = TRUE,
                                    !.data = <<{u.id : u \in users}>>], {})
            /\ UNCHANGED hist
    /\ UNCHANGED <<tables, tokens>>

----------------------------------------------------------------------------
\* GET /api, GET /api/posts, GET /api/posts/:postId/comments and
\* GET /api/users/:userId: routes without authenticateToken (req.user is
\* never set, whatever the request's headers are)

\* res.json({ success: true, message: ..., timestamp: ... }): no query
GetApi ==
    /\ CanReceive
    /\ Reply("api", NoToken, 0, 200)
    /\ UNCHANGED <<tables, tokens, req>>

\* FROM posts p JOIN users u ON p.user_id = u.id
PostRows == {p \in posts : \E u \in users : u.id = p.user_id}

\* SELECT p.*, u.username ... ORDER BY p.created_at DESC
GetPostsStart ==
    /\ CanReceive
    /\ \E s \in Slots, q \in OrderedDesc(PostRows) :
         /\ FreeSlot(s)
         /\ Started(s, [Idle EXCEPT !.op = "posts", !.pc = "respond",
                            !.status = 200, !.flag = TRUE, !.data = Ids(q)], {})
    /\ UNCHANGED <<tables, tokens, hist>>

\* FROM comments c JOIN users u ON c.user_id = u.id WHERE c.post_id = ?   (the ids of the rows)
CommentIds(postId) ==
    {c.id : c \in {d \in comments : d.post_id = postId /\ \E u \in users : u.id = d.user_id}}

GetCommentsStart(postId) ==
    /\ CanReceive
    /\ \E s \in Slots :
         /\ FreeSlot(s)
         /\ Started(s, [Idle EXCEPT !.op = "getComments", !.pc = "respond", !.arg = postId,
                            !.status = 200, !.flag = TRUE,
                            !.data = <<CommentIds(postId)>>], {})
    /\ UNCHANGED <<tables, tokens, hist>>

\* SELECT id, username, email, created_at FROM users WHERE id = ?
GetUserStart(userId) ==
    /\ CanReceive
    /\ \E s \in Slots :
         /\ FreeSlot(s)
         /\ Started(s, [Idle EXCEPT !.op = "getUser", !.pc = "user_posts", !.arg = userId,
                            !.n = Cardinality({u \in users : u.id = userId})], {})
    /\ UNCHANGED <<tables, tokens, hist>>

\* if (!user) 404; SELECT COUNT(*) as count FROM posts WHERE user_id = ?
GetUserPosts(s) ==
    /\ req[s].pc = "user_posts"
    /\ IF req[s].n = 0
       THEN Send(s, 404, FALSE, <<>>)
       ELSE /\ req' = [req EXCEPT ![s].pc = "user_followers",
                         ![s].data = <<Cardinality({p \in posts : p.user_id = req[s].arg})>>]
            /\ UNCHANGED hist
    /\ UNCHANGED <<tables, tokens, left>>

\* SELECT COUNT(*) as count FROM follows WHERE following_id = ?
GetUserFollowers(s) ==
    /\ req[s].pc = "user_followers"
    /\ req' = [req EXCEPT ![s].pc = "user_following",
                 ![s].data = Append(@, Cardinality({f \in follows : f.following_id = req[s].arg}))]
    /\ UNCHANGED <<tables, tokens, hist, left>>

\* SELECT COUNT(*) as count FROM follows WHERE follower_id = ?; req.user is
\* undefined, so isFollowing stays false and the fifth query does not run.
GetUserFollowing(s) ==
    /\ req[s].pc = "user_following"
    /\ Pending(s, 200, FALSE,
               Append(req[s].data, Cardinality({f \in follows : f.follower_id = req[s].arg})))
    /\ UNCHANGED <<tables, tokens, hist, left>>

----------------------------------------------------------------------------
\* The server starts on the database its earlier runs left (initializeDatabase
\* creates the tables only if they do not exist): an empty one, or the one
\* Seeded describes.

NoRequests ==
    /\ req = [s \in Slots |-> Idle]
    /\ last = Response(Idle)
    /\ succ = [k \in {} |-> 0]

InitEmpty ==
    /\ users = {} /\ posts = {} /\ comments = {}
    /\ likes = {} /\ follows = {} /\ notifications = {}
    /\ autoInc = [t \in {"users", "posts", "comments", "likes", "follows", "notifications"} |-> 1]
    /\ now = 1
    /\ tokens = {}
    /\ given = {}

\* ann and bob have registered; ann has posted once and bob twice, bob's
\* first post within the same second as ann's.
SeedUsers == {UserRow(1, "ann", "ann@x.org", "pw"), UserRow(2, "bob", "bob_admin@gmail.com", "pw")}
Seeded ==
    /\ users = SeedUsers
    /\ posts = {[id |-> 1, user_id |-> 1, content |-> "hi", created_at |-> 1],
                [id |-> 2, user_id |-> 2, content |-> "hi", created_at |-> 1],
                [id |-> 3, user_id |-> 2, content |-> "hi", created_at |-> 2]}
    /\ comments = {} /\ likes = {} /\ follows = {} /\ notifications = {}
    /\ autoInc = [t \in {"users", "posts", "comments", "likes", "follows", "notifications"} |->
                    IF t = "users" THEN 3 ELSE IF t = "posts" THEN 4 ELSE 1]
    /\ now = 2
    /\ tokens = {JwtSign(u) : u \in SeedUsers}
    /\ given = {<<1, "pw">>, <<2, "pw">>}

Init ==
    /\ InitEmpty \/ Seeded
    /\ NoRequests
    /\ left = MaxReq

Next ==
    \/ \E u \in Usernames \cup {""}, e \in Emails \cup {""}, p \in Passwords \cup {""} :
          RegisterStart(u, e, p)
    \/ \E s \in Slots : RegisterInsert(s)
    \/ \E s \in Slots : RegisterSelect(s)
    \/ \E s \in Slots : RegisterSign(s)
    \/ \E e \in Emails, p \in Passwords \cup {"no"} : LoginStart(e, p)
    \/ \E s \in Slots : LoginCheck(s)
    \/ \E t \in Presentable, c \in Contents : CreatePostStart(t, c)
    \/ \E s \in Slots : CreatePostSelect(s)
    \/ \E t \in Presentable, p \in PostIds : LikeStart(t, p)
    \/ \E s \in Slots : LikeToggle(s)
    \/ \E s \in Slots : LikeOwner(s)
    \/ \E s \in Slots : LikeNotify(s)
    \/ \E t \in Presentable, u \in UserIds : FollowStart(t, u)
    \/ \E s \in Slots : FollowSelect(s)
    \/ \E s \in Slots : FollowToggle(s)
    \/ \E s \in Slots : FollowNotify(s)
    \/ \E t \in Presentable : FeedStart(t)
    \/ \E t \in Presentable, p \in PostIds, c \in Contents : CommentStart(t, p, c)
    \/ \E s \in Slots : CommentSelect(s)
    \/ \E s \in Slots : CommentOwner(s)
    \/ \E s \in Slots : CommentNotify(s)
    \/ \E t \in Presentable : NotificationsStart(t)
    \/ \E t \in Presentable, n \in NotificationIds : MarkReadStart(t, n)
    \/ \E s \in Slots : MarkReadUpdate(s)
    \/ \E t \in Presentable : AdminUsersStart(t)
    \/ \E s \in Slots : Respond(s)

Spec == Init /\ [][Next]_vars

----------------------------------------------------------------------------
\* The like, follow and feed requests of the registered users on the database
\* Seeded describes.

InitSocial ==
    /\ Seeded
    /\ NoRequests
    /\ left = MaxSocialReq

NextSocial ==
    \/ \E t \in tokens, p \in PostIds : LikeStart(t, p)
    \/ \E s \in Slots : LikeToggle(s)
    \/ \E s \in Slots : LikeOwner(s)
    \/ \E s \in Slots : LikeNotify(s)
    \/ \E t \in tokens, u \in UserIds : FollowStart(t, u)
    \/ \E s \in Slots : FollowSelect(s)
    \/ \E s \in Slots : FollowToggle(s)
    \/ \E s \in Slots : FollowNotify(s)
    \/ \E t \in tokens : FeedStart(t)
    \/ \E s \in Slots : Respond(s)

SpecSocial == InitSocial /\ [][NextSocial]_vars

----------------------------------------------------------------------------
\* The register and login requests, with short and long passwords.

InitAuth ==
    /\ InitEmpty \/ Seeded
    /\ NoRequests
    /\ left = MaxAuthReq

NextAuth ==
    \/ \E u \in Usernames \cup {""}, e \in Emails \cup {""}, p \in AuthPasswords \cup {""} :
          RegisterStart(u, e, p)
    \/ \E s \in Slots : RegisterInsert(s)
    \/ \E s \in Slots : RegisterSelect(s)
    \/ \E s \in Slots : RegisterSign(s)
    \/ \E e \in Emails, p \in AuthPasswords : LoginStart(e, p)
    \/ \E s \in Slots : LoginCheck(s)
    \/ \E s \in Slots : Respond(s)

SpecAuth == InitAuth /\ [][NextAuth]_vars

----------------------------------------------------------------------------
\* The read requests, with create-post, follow and comment requests that
\* change what they read.

InitRead ==
    /\ InitEmpty \/ Seeded
    /\ NoRequests
    /\ left = MaxReadReq

NextRead ==
    \/ GetApi
    \/ GetPostsStart
    \/ \E p \in PostIds : GetCommentsStart(p)
    \/ \E u \in UserIds : GetUserStart(u)
    \/ \E s \in Slots : GetUserPosts(s)
    \/ \E s \in Slots : GetUserFollowers(s)
    \/ \E s \in Slots : GetUserFollowing(s)
    \/ \E t \in tokens : FeedStart(t)
    \/ \E t \in tokens : NotificationsStart(t)
    \/ \E t \in tokens : AdminUsersStart(t)
    \/ \E t \in tokens, c \in Contents : CreatePostStart(t, c)
    \/ \E s \in Slots : CreatePostSelect(s)
    \/ \E t \in tokens, u \in UserIds : FollowStart(t, u)
    \/ \E s \in Slots : FollowSelect(s)
    \/ \E s \in Slots : FollowToggle(s)
    \/ \E s \in Slots : FollowNotify(s)
    \/ \E t \in tokens, p \in PostIds, c \in Contents : CommentStart(t, p, c)
    \/ \E s \in Slots : CommentSelect(s)
    \/ \E s \in Slots : CommentOwner(s)
    \/ \E s \in Slots : CommentNotify(s)
    \/ \E s \in Slots : Respond(s)

SpecRead == InitRead /\ [][NextRead]_vars

----------------------------------------------------------------------------
\* Properties.  The rows of likes and follows are compared by their
\* (user_id, post_id) and (follower_id, following_id) pairs: no request
\* reads the id or created_at of a likes or follows row.

Accepted(r) == AuthStatus(r.token) = 0
PostExists(postId) == \E p \in posts : p.id = postId
UserExists(userId) == \E u \in users : u.id = userId
OwnerOf(postId) == (CHOOSE p \in posts : p.id = postId).user_id

\* The effect of one toggle request of key on the pairs pre, as the response r reports it.
Toggled(r, key) ==
    /\ r.status = 200
    /\ r.flag = (key \notin r.pre)
    /\ (key \in r.post) = r.flag
    /\ r.solo => r.post = (IF r.flag THEN r.pre \cup {key} ELSE r.pre \ {key})
    /\ (r.solo /\ r.pre2 # <<>>) => r.post = r.pre2[1]

\* C1: a like request of an authenticated user u on an existing post p that
\* overlaps no other like request of u on p is answered 200 with liked true
\* exactly when there was no row (u,p); the row (u,p) exists when the response
\* is sent exactly when liked is true; a request that overlaps no request at all
\* inserts or deletes that row and nothing else, and two such requests in a row
\* leave the pairs of likes as they were before the first.
C1_LikeToggle ==
    (last.op = "like" /\ Accepted(last) /\ PostExists(last.arg) /\ last.alone)
        => Toggled(last, <<last.token.userId, last.arg>>)

\* A like and then an unlike of the same user and post, each on its own.
C1_Witness ==
    /\ last.op = "like" /\ last.status = 200 /\ ~last.flag
    /\ last.solo /\ last.pre2 # <<>>
    /\ <<last.token.userId, last.arg>> \notin LikePairs

\* C2: a follow request of an authenticated user f for an existing user t # f
\* that overlaps no other follow request of f for t is answered 200 with
\* following true exactly when there was no row (f,t); the row (f,t) exists when
\* the response is sent exactly when following is true; a request that overlaps
\* no request at all inserts or deletes that row and nothing else, and two such
\* requests in a row leave the pairs of follows as they were before the first.
C2_FollowToggle ==
    (/\ last.op = "follow" /\ Accepted(last)
     /\ last.arg # last.token.userId /\ UserExists(last.arg) /\ last.alone)
        => Toggled(last, <<last.token.userId, last.arg>>)

\* A follow and then an unfollow of the same two users, each on its own.
C2_Witness ==
    /\ last.op = "follow" /\ last.status = 200 /\ ~last.flag
    /\ last.solo /\ last.pre2 # <<>>
    /\ <<last.token.userId, last.arg>> \notin FollowPairs


\* C3: in every state, also between the statements of handlers that run at
\* the same time, likes holds at most one row per (user_id, post_id) and
\* follows at most one row per (follower_id, following_id).
C3_UniquePairs ==
    /\ \A l1, l2 \in likes :
          (l1.user_id = l2.user_id /\ l1.post_id = l2.post_id) => l1 = l2
    /\ \A f1, f2 \in follows :
          (f1.follower_id = f2.follower_id /\ f1.following_id = f2.following_id) => f1 = f2

\* Two like requests of one user on one post overlapped; the second INSERT
\* was rejected and the row of the first is there.
C3_Witness ==
    /\ last.op = "like" /\ last.status = 500 /\ ~last.alone
    /\ PostExists(last.arg)
    /\ <<last.token.userId, last.arg>> \in LikePairs

\* C7: in every state, the rows of posts, likes, comments, follows and
\* notifications reference users that exist, and the rows of likes and
\* comments, and the rows of notifications with a post_id, a post that exists.
C7_ReferentialIntegrity ==
    /\ \A p \in posts : UserExists(p.user_id)
    /\ \A l \in likes : UserExists(l.user_id) /\ PostExists(l.post_id)
    /\ \A c \in comments : UserExists(c.user_id) /\ PostExists(c.post_id)
    /\ \A f \in follows : UserExists(f.follower_id) /\ UserExists(f.following_id)
    /\ \A n \in notifications :
          /\ UserExists(n.user_id) /\ UserExists(n.source_user_id)
          /\ n.post_id # NullId => PostExists(n.post_id)

\* A registered user commented on a post that does not exist: the INSERT was
\* rejected and the request answered 500.
C7_Witness ==
    /\ last.op = "comment" /\ last.status = 500 /\ Accepted(last)
    /\ UserExists(last.token.userId) /\ ~PostExists(last.arg)

\* C9: in every state, no notifications row has user_id = source_user_id.
C9_NoSelfNotification == \A n \in notifications : n.user_id # n.source_user_id

\* A user liked their own post: answered liked:true, no notification written.
C9_Witness ==
    /\ last.op = "like" /\ last.status = 200 /\ last.flag
    /\ PostExists(last.arg) /\ OwnerOf(last.arg) = last.token.userId
    /\ last.wrote = {}


\* The pairs of the table the requests of operation op toggle.
PairsOf(op) == IF op = "like" THEN LikePairs ELSE FollowPairs
InFlight(op, userId, target) ==
    \E s \in Slots : req[s].op = op /\ req[s].token.userId = userId /\ req[s].arg = target

\* With no request of the key <<op, user, target>> in flight, the row exists
\* exactly when the number of its 200 responses is odd.
C10_Parity ==
    \A k \in DOMAIN succ :
        ~InFlight(k[1], k[2], k[3]) => ((<<k[2], k[3]>> \in PairsOf(k[1])) <=> (succ[k] % 2 = 1))

\* With none in flight, the row exists exactly when the last 200 response of
\* the key carried liked:true (following:true).
C10_LastAnswer ==
    (/\ last.op \in {"like", "follow"} /\ last.status = 200
     /\ ~InFlight(last.op, last.token.userId, last.arg))
        => ((<<last.token.userId, last.arg>> \in PairsOf(last.op)) <=> last.flag)

\* C10: starting without the row, once the like requests of user u on post p
\* (the follow requests of f for t) have all completed, the row exists exactly
\* when the number of them answered 200 is odd, and exactly when the last one
\* answered 200 answered liked:true (following:true).
C10_ToggleParity == C10_Parity /\ C10_LastAnswer


\* The posts the feed of userId is to hold: those of userId and those of the
\* users t with a follows row (userId, t).
FeedExpected(userId) ==
    {p \in posts : p.user_id = userId \/ <<userId, p.user_id>> \in FollowPairs}
PostById(id) == CHOOSE p \in posts : p.id = id

\* The step that receives a feed request returns exactly the expected posts,
\* each once, newest first.
C4_FeedQuery ==
    \A s \in Slots :
        (req[s].op = "idle" /\ req'[s].op = "feed") =>
            LET d == req'[s].data
                u == req'[s].token.userId
            IN  /\ {d[i] : i \in DOMAIN d} = {p.id : p \in FeedExpected(u)}
                /\ \A i, j \in DOMAIN d : i # j => d[i] # d[j]
                /\ \A i, j \in DOMAIN d :
                      i < j => PostById(d[i]).created_at >= PostById(d[j]).created_at

\* The follow response sent last and the feed of its sender: following:true
\* and every post of the target is in it, following:false and none is.
FollowAnswerInFeed ==
    (last.op = "follow" /\ last.status = 200) =>
        LET theirs == {p \in posts : p.user_id = last.arg}
        IN  IF last.flag
            THEN theirs \subseteq FeedRows(last.token.userId)
            ELSE theirs \cap FeedRows(last.token.userId) = {}

C4_AfterFollow ==
    (\E s \in Slots : req[s].op = "follow" /\ req'[s].op = "idle") => FollowAnswerInFeed'

\* C4: GET /api/feed returns exactly the posts of the user and of the users
\* the user follows when the query runs, each once, newest first; and when a
\* follow request is answered, the feed of its sender holds every post of the
\* target (following:true) or none of them (following:false).
C4_Feed == [][C4_FeedQuery /\ C4_AfterFollow]_vars

C4_FeedQueryOnly == [][C4_FeedQuery]_vars


\* The notifications row (without its id) a completed request is to have
\* written, by its response r; none for every other request.
ExpectedWrote(r) ==
    IF r.op = "like" /\ r.status = 200 /\ r.flag /\ OwnerOf(r.arg) # r.token.userId
    THEN {[user_id |-> OwnerOf(r.arg), type |-> "like", source_user_id |-> r.token.userId,
           post_id |-> r.arg, is_read |-> 0]}
    ELSE IF r.op = "comment" /\ r.status = 201 /\ OwnerOf(r.arg) # r.token.userId
    THEN {[user_id |-> OwnerOf(r.arg), type |-> "comment", source_user_id |-> r.token.userId,
           post_id |-> r.arg, is_read |-> 0]}
    ELSE IF r.op = "follow" /\ r.status = 200 /\ r.flag
    THEN {[user_id |-> r.arg, type |-> "follow", source_user_id |-> r.token.userId,
           post_id |-> NullId, is_read |-> 0]}
    ELSE {}

WithoutId(n) == [user_id |-> n.user_id, type |-> n.type, source_user_id |-> n.source_user_id,
                 post_id |-> n.post_id, is_read |-> n.is_read]

C5_Written ==
    /\ {WithoutId(n) : n \in last.wrote} = ExpectedWrote(last)
    /\ Cardinality(last.wrote) = Cardinality(ExpectedWrote(last))

\* A row that appears in notifications is the one row a step of a like, comment
\* or follow handler writes.
NewNotifications == {n \in notifications' : \A m \in notifications : m.id # n.id}
C5_OnlyWriters ==
    NewNotifications # {} =>
        \E s \in Slots :
            /\ req[s].op \in {"like", "comment", "follow"}
            /\ Cardinality(NewNotifications) = 1
            /\ req'[s].wrote = req[s].wrote \cup NewNotifications

\* C5: a completed like request answered liked:true on another user's post, a
\* completed comment request answered 201 on another user's post and a
\* completed follow request answered following:true have each written exactly
\* one notifications row, to the post owner (to the followed user), of type
\* 'like', 'comment' or 'follow', from the acting user, for the post (NULL for
\* follow), unread; every other request has written none, and no other step
\* adds a notifications row.
C5_NotificationFanOut == []C5_Written /\ [][C5_OnlyWriters]_vars

\* A like of another user's post was answered and its notification is in the table.
C5_Witness ==
    /\ last.op = "like" /\ last.status = 200 /\ last.flag
    /\ last.wrote # {} /\ last.wrote \subseteq notifications

AuthOps == {"createPost", "like", "follow", "feed", "comment", "notifications",
            "markRead", "adminUsers"}
Steps(s) == req'[s].pc # req[s].pc
Actor(s) == IF Active(s) THEN req[s] ELSE req'[s]

\* A request of a route behind authenticateToken that is answered at once.
C6_Rejected ==
    (left' = left - 1 /\ (\A s \in Slots : ~Steps(s)) /\ last'.op \in AuthOps) =>
        /\ last'.token = NoToken => last'.status = 401
        /\ (last'.token # NoToken /\ last'.token \notin tokens) => last'.status = 403
        /\ last'.status \in {401, 403} => UNCHANGED tables

\* A step of a handler behind authenticateToken.
C6_Authorized ==
    \A s \in Slots :
        (Steps(s) /\ Actor(s).op \in AuthOps) =>
            LET t == Actor(s).token
            IN  /\ t \in tokens
                /\ \A p \in posts' \ posts : p.user_id = t.userId
                /\ \A l \in (likes' \ likes) \cup (likes \ likes') : l.user_id = t.userId
                /\ \A c \in comments' \ comments : c.user_id = t.userId
                /\ \A f \in (follows' \ follows) \cup (follows \ follows') : f.follower_id = t.userId
                /\ \A n \in NewNotifications : n.source_user_id = t.userId

\* The five tables change only in such a step.
C6_OnlyHandlers ==
    <<posts, likes, comments, follows, notifications>>' # <<posts, likes, comments, follows, notifications>>
        => \E s \in Slots : Steps(s) /\ Actor(s).op \in AuthOps

\* C6: posts, likes, comments, follows and notifications change only in the
\* steps of handlers whose request carried a token the server issued (so do the
\* feed and notification reads run); a request without a token is answered 401
\* and one with an invalid token 403, the tables unchanged; every row such a
\* handler inserts or deletes carries the userId of its token as acting user.
C6_TokenGate == [][C6_Rejected /\ C6_Authorized /\ C6_OnlyHandlers]_vars

\* A request with an invalid token was answered 403 after an accepted like.
C6_Witness ==
    /\ last.op \in AuthOps /\ last.token \in BadTokens /\ last.status = 403
    /\ likes # {}

StoredAdmin(userId) == \E u \in users : u.id = userId /\ u.is_admin = 1
\* The emails of Emails that end with '_admin@gmail.com' or are 'admin@social.com'.
AdminEmails == {"bob_admin@gmail.com", "admin@social.com"}

C8_Gate ==
    last.op = "adminUsers" =>
        /\ last.status = 200 => (last.token \in tokens /\ StoredAdmin(last.token.userId))
        /\ (last.token \in tokens /\ ~StoredAdmin(last.token.userId)) => last.status = 403
        /\ last.token = NoToken => last.status = 401

C8_Flags ==
    /\ \A u \in users : u.is_admin = (IF u.email \in AdminEmails THEN 1 ELSE 0)
    /\ \A t \in tokens : \E u \in users : u.id = t.userId /\ u.is_admin = t.isAdmin

C8_Fixed == \A u \in users : \E v \in users' : v.id = u.id /\ v.is_admin = u.is_admin

\* C8: GET /api/admin/users answers 200 only to a token issued to a user whose
\* stored is_admin is true, 403 to an issued token of another user and 401
\* without a token; is_admin is true exactly for the emails that end with
\* '_admin@gmail.com' or equal 'admin@social.com', no step changes it, and
\* the isAdmin of every issued token is the stored is_admin of its user.
C8_AdminGate == [](C8_Gate /\ C8_Flags) /\ [][C8_Fixed]_vars

\* An administrator got the user list.
C8_Witness == last.op = "adminUsers" /\ last.status = 200 /\ StoredAdmin(last.token.userId)

\* C11: a like request with a valid token on an existing post, and a follow
\* request with a valid token on an existing other user, is answered 200
\* (success:true), never 500, also when it overlaps another like or follow
\* request of the same user on the same target.
C11_NoServerError ==
    (\/ last.op = "like" /\ Accepted(last) /\ PostExists(last.arg)
     \/ /\ last.op = "follow" /\ Accepted(last)
        /\ UserExists(last.arg) /\ last.arg # last.token.userId)
        => last.status = 200

\* No follows row of a user with themselves, no follow handler in flight whose
\* target is its own user, and the follow request of a user for themselves
\* answered last got 400.
C12_Refused ==
    /\ \A f \in follows : f.follower_id # f.following_id
    /\ \A s \in Slots : req[s].op = "follow" => req[s].arg # req[s].user.userId
    /\ (last.op = "follow" /\ Accepted(last) /\ last.arg = last.token.userId)
          => last.status = 400

\* The step that answers such a request changes no table.
C12_Frame ==
    (/\ left' = left - 1 /\ (\A s \in Slots : ~Steps(s))
     /\ last'.op = "follow" /\ Accepted(last') /\ last'.arg = last'.token.userId)
        => UNCHANGED <<users, posts, comments, likes, follows, notifications>>

\* C12: a follow request whose target userId is the userId of its token is
\* answered 400 and changes no table, and in every state no follows row has
\* follower_id = following_id.
C12_NoSelfFollow == []C12_Refused /\ [][C12_Frame]_vars

\* A user who follows another one asked to follow themselves and got 400.
C12_Witness ==
    /\ last.op = "follow" /\ Accepted(last) /\ last.arg = last.token.userId
    /\ last.status = 400
    /\ \E f \in follows : f.follower_id = last.token.userId

\* The request r is a follow of a user, or a like or comment of a post, that
\* does not exist.
Missing(r) ==
    \/ r.op = "follow" /\ ~UserExists(r.arg)
    \/ r.op \in {"like", "comment"} /\ ~PostExists(r.arg)

\* No step of the handler of such a request changes a table.
C13_NoEffect ==
    \A s \in Slots :
        (Steps(s) /\ Missing(Actor(s))) =>
            UNCHANGED <<users, posts, comments, likes, follows, notifications>>

\* Such a request is answered 404 (follow), or without success (like, comment).
C13_Failure ==
    (Accepted(last) /\ Missing(last)) =>
        /\ last.op = "follow" => last.status = 404
        /\ last.status \notin {200, 201}
        /\ last.wrote = {}

\* C13: a follow request for a userId not in users is answered 404, a like or
\* comment request for a postId not in posts is answered with a failure, and no
\* step of their handlers changes a table.
C13_MissingTarget == []C13_Failure /\ [][C13_NoEffect]_vars

\* A registered user liked a post that does not exist and got 500.
C13_Witness ==
    /\ last.op = "like" /\ Accepted(last) /\ ~PostExists(last.arg)
    /\ last.status = 500
    /\ likes = {}

\* The notifications of userId with this id.
Own(notificationId, userId) ==
    {n \in notifications : n.id = notificationId /\ n.user_id = userId}

\* A row of notifications changes only in a step of a mark-as-read handler of
\* the row's user for the row's id, which sets its is_read and goes on to
\* answer 200; no row is removed.
Changed == {m \in notifications : m \notin notifications'}
C14_Change ==
    Changed # {} =>
        \E s \in Slots :
            /\ Steps(s) /\ req[s].op = "markRead" /\ req'[s].status = 200
            /\ \A m \in Changed :
                  /\ m.id = req[s].arg /\ m.user_id = req[s].user.userId
                  /\ m.is_read = 0
                  /\ [m EXCEPT !.is_read = 1] \in notifications'
                  /\ \A n \in notifications' : n.id = m.id => n = [m EXCEPT !.is_read = 1]

\* The mark-as-read response sent last and the table: 200 or 404, 200 only for
\* a notification of its user, which is then read; 404 when there is none (a
\* request that overlaps no other is answered 200 whenever there is one).
C14_Answer ==
    (last.op = "markRead" /\ Accepted(last)) =>
        /\ last.status \in {200, 404}
        /\ last.status = 200 =>
              \E n \in Own(last.arg, last.token.userId) : n.is_read = 1
        /\ (last.status = 404 /\ last.solo) => Own(last.arg, last.token.userId) = {}

\* It holds when the handler sends its response.
C14_Answered ==
    (\E s \in Slots : req[s].op = "markRead" /\ req'[s].op = "idle") => C14_Answer'

\* C14: mark-as-read sets is_read on exactly the notification with the id of
\* the request and only when its user_id is the userId of the token; it
\* answers 404 and changes nothing when that notification does not exist or
\* belongs to another user; no step changes another field of a notification or
\* sets is_read back to false.
C14_MarkReadOwner == [][C14_Change /\ C14_Answered]_vars

\* The owner marked a notification as read.
C14_Witness ==
    /\ last.op = "markRead" /\ last.status = 200
    /\ \E n \in Own(last.arg, last.token.userId) : n.is_read = 1

\* A register request with a missing field is answered 400, users unchanged.
C15_Missing ==
    (left' = left - 1 /\ (\A s \in Slots : ~Steps(s)) /\ last'.op = "register") =>
        last'.status = 400 /\ users' = users

\* The response of a register handler: 400 when a user with its email existed
\* when it started, else 201 with a token whose userId is the id of the row
\* of its username and email.
C15_Answered ==
    \A s \in Slots :
        (req[s].op = "register" /\ req'[s].op = "idle") =>
            IF req[s].body.email \in req[s].pre
            THEN last'.status = 400
            ELSE /\ last'.status = 201
                 /\ \E u \in users' :
                       /\ u.username = req[s].body.username /\ u.email = req[s].body.email
                       /\ last'.data = <<JwtSign(u)>>

\* users changes only by the one row a register handler inserts, a row of its
\* username and email, when no user with its email existed when it started.
C15_Insert ==
    users' # users =>
        /\ users \subseteq users' /\ Cardinality(users' \ users) = 1
        /\ \E s \in Slots :
              /\ Steps(s) /\ req[s].op = "register"
              /\ req[s].body.email \notin req[s].pre
              /\ \A u \in users' \ users :
                    u.username = req[s].body.username /\ u.email = req[s].body.email

C15_UniqueEmails == \A u, v \in users : u.email = v.email => u = v

\* C15: a register request is answered 400 and leaves users unchanged when a
\* field is missing or a user with the email exists; in every other case it
\* inserts exactly one users row and answers 201 with a token whose userId is
\* the id of that row; in every state no two users share an email.
C15_Registration ==
    []C15_UniqueEmails /\ [][C15_Missing /\ C15_Answered /\ C15_Insert]_vars

\* The users row of this email whose register request carried this password.
Registered(email, password) ==
    {u \in users : u.email = email /\ <<u.id, password>> \in given}

\* The response of a login handler: 200 only when the email is registered with
\* the submitted password, with a token of that row's id, email and is_admin;
\* else 401; a login that overlaps no request is answered 200 whenever the
\* email is registered with the submitted password.
C16_Answered ==
    \A s \in Slots :
        (req[s].op = "login" /\ req'[s].op = "idle") =>
            LET match == Registered(req[s].body.email, req[s].body.password)
            IN  /\ last'.status \in {200, 401}
                /\ last'.status = 200 => \E u \in match : last'.data = <<JwtSign(u)>>
                /\ (match # {} /\ req[s].solo) => last'.status = 200

\* No step of a login handler changes a table.
C16_Frame ==
    \A s \in Slots : (Steps(s) /\ Actor(s).op = "login") => UNCHANGED tables

\* C16: a login is answered 200, with a token of the stored user's id, email
\* and is_admin, exactly when the email is registered and the password is the
\* one given at that user's registration; else 401, for an unknown email as
\* for a wrong password; no step of a login handler changes a table.
C16_Login == [][C16_Answered /\ C16_Frame]_vars

ReadOps == {"posts", "getComments", "getUser", "feed", "notifications", "adminUsers"}

\* No step of the handler of a read changes a table.
C17_ReadFrame ==
    \A s \in Slots : (Steps(s) /\ Actor(s).op \in ReadOps) => UNCHANGED tables

\* GET /api is answered 200, and a create-post or add-comment request that is
\* answered at once, its token accepted, is answered 400; the tables unchanged.
C17_ReplyFrame ==
    (left' = left - 1 /\ \A s \in Slots : ~Steps(s)) =>
        /\ last'.op = "api" => (last'.status = 200 /\ UNCHANGED tables)
        /\ (last'.op \in {"createPost", "comment"} /\ Accepted(last')) =>
              (last'.status = 400 /\ UNCHANGED tables)

\* No create-post or add-comment request with empty content wrote its row.
C17_NoEmptyContent ==
    /\ \A p \in posts : p.content # ""
    /\ \A c \in comments : c.content # ""

\* d lists the ids of the posts rows, each once, newest first.
Listing(rows, d) ==
    /\ {d[i] : i \in DOMAIN d} = {p.id : p \in rows}
    /\ \A i, j \in DOMAIN d : i # j => d[i] # d[j]
    /\ \A i, j \in DOMAIN d : i < j => PostById(d[i]).created_at >= PostById(d[j]).created_at

\* The answer to the read answered last is the one the tables give.
ReadAnswer ==
    LET userId == last.token.userId
        d == last.data
    IN  CASE last.op = "posts" -> last.status = 200 /\ Listing(posts, d)
          [] last.op = "feed" -> last.status = 200 /\ Listing(FeedExpected(userId), d)
          [] last.op = "getComments" ->
                last.status = 200 /\ d = <<{c.id : c \in {e \in comments : e.post_id = last.arg}}>>
          [] last.op = "notifications" ->
                last.status = 200 /\ d = <<{n.id : n \in {m \in notifications : m.user_id = userId}}>>
          [] last.op = "adminUsers" -> last.status = 200 /\ d = <<{u.id : u \in users}>>
          [] last.op = "getUser" ->
                IF UserExists(last.arg)
                THEN /\ last.status = 200 /\ ~last.flag
                     /\ d = <<Cardinality({p \in posts : p.user_id = last.arg}),
                              Cardinality({k \in FollowPairs : k[2] = last.arg}),
                              Cardinality({k \in FollowPairs : k[1] = last.arg})>>
                ELSE last.status = 404
          [] OTHER -> TRUE

\* It is, when the handler of a read that overlapped no request responds.
C17_Answered ==
    (\E s \in Slots : req[s].op \in ReadOps /\ req'[s].op = "idle" /\ req[s].solo)
        => ReadAnswer'

====
